---- MODULE Spec2Model ----
(***************************************************************************)
(* django_enum/operations.py: CreateEnum and AlterEnum as a state machine. *)
(*                                                                         *)
(* The migration state (state.db_types), the database catalogue of enum    *)
(* types, the type each enum column is declared with and the rows of the   *)
(* tables are the state.  AlterEnum.database_forwards is split at the      *)
(* statements it executes: building the plan, each pre-action, the         *)
(* collection of the on_delete actions, each write of collector.delete(),  *)
(* each post-action.                                                       *)
(***************************************************************************)
EXTENDS Integers, Sequences, FiniteSets, TLC

(***************************************************************************)
(* Bounds and the finite universe of the model.                            *)
(***************************************************************************)

Values == {"red", "blue", "yellow"}
NULL == "NULL"
GONE == "GONE"
RowIds == {"r1"}
\* The names of the enum fields, and the field lists get_fields can return:
\* one model with an enum field, or two.
FieldNames == {"f1", "f2"}
FieldLists == {<<"f1">>, <<"f1", "f2">>}

(***************************************************************************)
(* Names.                                                                  *)
(***************************************************************************)
db_type == "color"
other_db_type == "size"
temp_db_type == "django_enum_temp"
transition_db_type == "django_enum_transition"

EmptyFcn == [x \in {} |-> {}]
NoValue == "-"

(***************************************************************************)
(* Removal policies: django.db.models PROTECT, CASCADE, SET_NULL,          *)
(* SET_DEFAULT and SET(value); None is the falsy on_delete argument.       *)
(***************************************************************************)
Policy(kind, value) == [kind |-> kind, value |-> value]
PROTECT == Policy("PROTECT", NoValue)
CASCADE == Policy("CASCADE", NoValue)
SET_NULL == Policy("SET_NULL", NoValue)
SET_DEFAULT == Policy("SET_DEFAULT", NoValue)
SET(v) == Policy("SET", v)
None == Policy("None", NoValue)
\* The on_delete argument is not given to AlterEnum.
Omitted == Policy("omitted", NoValue)
\* The values SET(value) is given in the model.
SetValues == {"yellow"}
Policies == {PROTECT, CASCADE, SET_NULL, SET_DEFAULT} \cup {SET(v) : v \in SetValues}

\* The policy and the default each enum column was declared with.
FieldOnDelete == [f \in FieldNames |-> IF f = "f1" THEN SET_NULL ELSE PROTECT]
FieldDefault == [f \in FieldNames |-> IF f = "f1" THEN "red" ELSE "blue"]

\* connection.features: (has_enum, requires_enum_declaration).
Features == { [has_enum |-> TRUE,  requires_enum_declaration |-> TRUE],
              [has_enum |-> TRUE,  requires_enum_declaration |-> FALSE],
              [has_enum |-> FALSE, requires_enum_declaration |-> FALSE] }

VARIABLES
    features,        \* schema_editor.connection.features
    Fields,          \* the enum fields get_fields returns, in its order
    state_db_types,  \* state.db_types: enum name -> value set
    db_enum_types,   \* the database's enum types: type name -> value set
    col_type,        \* field -> the type its column is declared with
    rows,            \* field -> row -> value, NULL, or GONE (deleted)
    pc,              \* position of the migration driver / database_forwards
    op,              \* the AlterEnum being applied
    from_state,      \* from_state.db_types of the running operation
    plan,            \* [pre_actions, post_actions]
    idx,             \* index of the next statement / update to execute
    collector,       \* Collector: field updates and rows to delete
    saved,           \* the database when the running operation started
    trace,           \* what the running operation has executed, in order
    err,             \* the exception that ended the operation
    hist             \* state_forwards applications (state-only specification)

vars == <<features, Fields, state_db_types, db_enum_types, col_type, rows, pc, op,
          from_state, plan, idx, collector, saved, trace, err, hist>>

FieldSet == {Fields[i] : i \in 1..Len(Fields)}

(***************************************************************************)
(* EnumState / enum_state: a snapshot is the set of its values.            *)
(***************************************************************************)
values_set(enum) == enum

enum_state(values) == values

\* state.add_type(name, enum): replaces the entry for name.
add_type(types, name, enum) ==
    [n \in DOMAIN types \cup {name} |-> IF n = name THEN enum ELSE types[n]]

remove_type(types, name) == [n \in DOMAIN types \ {name} |-> types[n]]

\* Mutants of AlterEnum.state_forwards: the removed values are not taken
\* out; the added values are put in after the removal.
AlterStateForwardsMerge(types, name, add_values, remove_values) ==
    add_type(types, name, enum_state(values_set(types[name]) \cup add_values))

AlterStateForwardsAddLast(types, name, add_values, remove_values) ==
    add_type(types, name,
             enum_state((values_set(types[name]) \ remove_values) \cup add_values))

(***************************************************************************)
(* AlterEnum.state_forwards: the snapshot stored under name becomes        *)
(* (from | add_values) - remove_values.                                    *)
(***************************************************************************)
AlterStateForwards(types, name, add_values, remove_values) ==
    LET from_enum == types[name]
        to_enum == enum_state((values_set(from_enum) \cup add_values) \ remove_values)
    IN  add_type(types, name, to_enum)

\* CreateEnum.state_forwards.
CreateStateForwards(types, name, values) == add_type(types, name, enum_state(values))

(***************************************************************************)
(* Statements.  A statement is what schema_editor.execute is given; the    *)
(* SQL text is kept as its meaning.                                        *)
(***************************************************************************)
Stmt(kind, enum_type, values, field, old_type) ==
    [kind |-> kind, enum_type |-> enum_type, values |-> values,
     field |-> field, old_type |-> old_type]

\* The placeholders of schema_editor.sql_create_enum.
sql_create_enum_keys == {"enum_type", "values"}

\* template % mapping raises KeyError when a placeholder has no key.
FormatRaises(template_keys, mapping_keys) == ~(template_keys \subseteq mapping_keys)

SqlCreateEnum(enum_type, values) == Stmt("create_enum", enum_type, values, NoValue, NoValue)
SqlDeleteEnum(enum_type) == Stmt("delete_enum", enum_type, {}, NoValue, NoValue)
SqlRenameEnum(old_type, enum_type) == Stmt("rename_enum", enum_type, {}, NoValue, old_type)
SqlAlterEnum(enum_type, value) == Stmt("alter_enum", enum_type, {value}, NoValue, NoValue)
\* ALTER COLUMN ... TYPE <named enum type>
SqlAlterColumnNamed(field, type, old_type) == Stmt("alter_column", type, {}, field, old_type)
\* ALTER COLUMN ... TYPE enum(<values>), the declaration of a database
\* that has enums without declaring them
SqlAlterColumnInline(field, values) == Stmt("alter_column_inline", NoValue, values, field, NoValue)

(***************************************************************************)
(* Column types and the database's answers.                                *)
(***************************************************************************)
NamedType(name) == [kind |-> "named", name |-> name, values |-> {}]
InlineType(values) == [kind |-> "inline", name |-> NoValue, values |-> values]
TextType == [kind |-> "text", name |-> NoValue, values |-> {}]

\* field.db_type(connection) for a field of enum type name with these values.
FieldDbType(ft, name, values) ==
    IF ft.requires_enum_declaration THEN NamedType(name)
    ELSE IF ft.has_enum THEN InlineType(values)
    ELSE TextType

\* The values a column of this type accepts (NULL is always accepted).
Accepts(ctype, types) ==
    CASE ctype.kind = "named" ->
            IF ctype.name \in DOMAIN types THEN types[ctype.name] ELSE {}
      [] ctype.kind = "inline" -> ctype.values
      [] OTHER -> Values

Held(rws) == {rws[r] : r \in DOMAIN rws} \ {NULL, GONE}

\* Whether the database accepts the statement.
StmtOk(s, types, cols, rws) ==
    CASE s.kind = "create_enum" -> s.enum_type \notin DOMAIN types
      [] s.kind = "delete_enum" ->
            /\ s.enum_type \in DOMAIN types
            /\ \A f \in DOMAIN cols : cols[f] # NamedType(s.enum_type)
      [] s.kind = "rename_enum" ->
            /\ s.old_type \in DOMAIN types
            /\ s.enum_type \notin DOMAIN types
      [] s.kind = "alter_enum" ->
            /\ s.enum_type \in DOMAIN types
            /\ s.values \cap types[s.enum_type] = {}
      [] s.kind = "alter_column" ->
            /\ s.enum_type \in DOMAIN types
            /\ Held(rws[s.field]) \subseteq types[s.enum_type]
      [] s.kind = "alter_column_inline" ->
            Held(rws[s.field]) \subseteq s.values
      [] OTHER -> FALSE

\* The catalogue after an accepted statement.
StmtTypes(s, types) ==
    CASE s.kind = "create_enum" -> add_type(types, s.enum_type, s.values)
      [] s.kind = "delete_enum" -> remove_type(types, s.enum_type)
      [] s.kind = "rename_enum" ->
            add_type(remove_type(types, s.old_type), s.enum_type, types[s.old_type])
      [] s.kind = "alter_enum" ->
            add_type(types, s.enum_type, types[s.enum_type] \cup s.values)
      [] OTHER -> types

\* The column declarations after an accepted statement.
StmtCols(s, cols) ==
    CASE s.kind = "rename_enum" ->
            [f \in DOMAIN cols |->
                IF cols[f] = NamedType(s.old_type) THEN NamedType(s.enum_type) ELSE cols[f]]
      [] s.kind = "alter_column" -> [cols EXCEPT ![s.field] = NamedType(s.enum_type)]
      [] s.kind = "alter_column_inline" -> [cols EXCEPT ![s.field] = InlineType(s.values)]
      [] OTHER -> cols

(***************************************************************************)
(* AlterEnum.database_forwards, lines 166-287: the plan.                   *)
(***************************************************************************)
\* AlterEnum(db_type, add_values, remove_values, on_delete=models.PROTECT):
\* given records whether the caller passed on_delete.
AlterEnum(add_values, remove_values, on_delete) ==
    [add_values |-> add_values, remove_values |-> remove_values,
     on_delete |-> IF on_delete = Omitted THEN PROTECT ELSE on_delete,
     given |-> on_delete # Omitted]

NoOp == AlterEnum({}, {}, None)

\* self.on_delete or field.on_delete
EffectiveOnDelete(self_on_delete, field_on_delete) ==
    IF self_on_delete # None THEN self_on_delete ELSE field_on_delete

\* The field/model list: (field, on_delete) for every field of the enum.
FieldList(o) ==
    [i \in 1..Len(Fields) |->
        [field |-> Fields[i],
         on_delete |-> EffectiveOnDelete(o.on_delete, FieldOnDelete[Fields[i]])]]

\* ALTER COLUMN to what field.db_type(connection) gives.
SqlAlterColumnTo(field, ctype) ==
    IF ctype.kind = "named"
    THEN SqlAlterColumnNamed(field, ctype.name, NoValue)
    ELSE SqlAlterColumnInline(field, ctype.values)

\* Mutant of the narrowing: has_enum is not looked at.
NarrowActionsAlways(ft, fs, to_values) ==
    IF ft.requires_enum_declaration
    THEN [i \in 1..Len(fs) |-> SqlAlterColumnNamed(fs[i].field, temp_db_type, db_type)]
    ELSE [i \in 1..Len(fs) |->
             SqlAlterColumnTo(fs[i].field, FieldDbType(ft, db_type, to_values))]

\* Lines 184-212: the post-actions that finalise the field types.
NarrowActions(ft, fs, to_values) ==
    IF ft.has_enum
    THEN IF ft.requires_enum_declaration
         THEN [i \in 1..Len(fs) |-> SqlAlterColumnNamed(fs[i].field, temp_db_type, db_type)]
         ELSE [i \in 1..Len(fs) |->
                  SqlAlterColumnTo(fs[i].field, FieldDbType(ft, db_type, to_values))]
    ELSE <<>>

\* Mutants of the transition test: SET_DEFAULT is not considered; CASCADE
\* takes the place of SET(value).
IsTransitionFieldSetOnly(f, add_values) == f.on_delete.kind = "SET"

IsTransitionFieldCascade(f, add_values) ==
    \/ f.on_delete = CASCADE
    \/ (f.on_delete = SET_DEFAULT /\ FieldDefault[f.field] \in add_values)

\* Lines 220-221: whether a field goes through the transition type.
IsTransitionField(f, add_values) ==
    \/ f.on_delete.kind = "SET"
    \/ (f.on_delete = SET_DEFAULT /\ FieldDefault[f.field] \in add_values)

\* Lines 214-221.
TransitionFields(fs, add_values) ==
    IF add_values # {}
    THEN SelectSeq(fs, LAMBDA f : IsTransitionField(f, add_values))
    ELSE <<>>

\* Line 223.
UsesTransition(ft, fs, add_values) ==
    TransitionFields(fs, add_values) # <<>> /\ ft.has_enum

\* Line 224.
TransitionValues(to_values, remove_values) == values_set(to_values) \cup remove_values

\* Lines 228-230: sql_create_enum formatted with 'enum_type' and 'choices'.
TransitionCreateRaises(ft, fs, add_values) ==
    /\ UsesTransition(ft, fs, add_values)
    /\ ft.requires_enum_declaration
    /\ FormatRaises(sql_create_enum_keys, {"enum_type", "choices"})

\* Lines 223-249: pre-actions of the transition type.
TransitionPre(ft, fs, o, to_values) ==
    IF UsesTransition(ft, fs, o.add_values)
    THEN LET tfs == TransitionFields(fs, o.add_values)
             transition_values == TransitionValues(to_values, o.remove_values)
         IN  (IF ft.requires_enum_declaration
              THEN <<SqlCreateEnum(transition_db_type, transition_values)>>
              ELSE <<>>)
             \o [i \in 1..Len(tfs) |->
                    SqlAlterColumnTo(tfs[i].field,
                        FieldDbType(ft, transition_db_type, transition_values))]
    ELSE <<>>

\* Lines 232-235: the post-action that drops the transition type.
TransitionPost(ft, fs, o) ==
    IF UsesTransition(ft, fs, o.add_values) /\ ft.requires_enum_declaration
    THEN <<SqlDeleteEnum(transition_db_type)>>
    ELSE <<>>

\* Mutant of the type replacement: no pre-action creates the new type.
ReplacePreNone(ft, to_values) == <<>>

\* Mutant of the type replacement: the new type is created under the name
\* of the transition type.
ReplacePreTransitionName(ft, to_values) ==
    IF ft.requires_enum_declaration
    THEN <<SqlCreateEnum(transition_db_type, to_values)>>
    ELSE <<>>

\* Lines 251-257: the new type under the temporary name.
ReplacePre(ft, to_values) ==
    IF ft.requires_enum_declaration
    THEN <<SqlCreateEnum(temp_db_type, to_values)>>
    ELSE <<>>

\* Mutant of the type replacement: the temporary type is not renamed.
ReplacePostNoRename(ft) ==
    IF ft.requires_enum_declaration
    THEN <<SqlDeleteEnum(db_type)>>
    ELSE <<>>

\* Mutant of the type replacement: the temporary type is renamed before the
\* original type is dropped.
ReplacePostRenameFirst(ft) ==
    IF ft.requires_enum_declaration
    THEN <<SqlRenameEnum(temp_db_type, db_type), SqlDeleteEnum(db_type)>>
    ELSE <<>>

\* Lines 258-265: drop the original type, rename the temporary one.
ReplacePost(ft) ==
    IF ft.requires_enum_declaration
    THEN <<SqlDeleteEnum(db_type), SqlRenameEnum(temp_db_type, db_type)>>
    ELSE <<>>

\* Mutant of the add-only plan: the last value is not added.
AddPostAllButLast(ft, order) ==
    IF ft.requires_enum_declaration
    THEN [i \in 1..(Len(order) - 1) |-> SqlAlterEnum(db_type, order[i])]
    ELSE <<>>

\* Mutant of the add-only plan: only the first value is added.
AddPostFirstOnly(ft, order) ==
    IF ft.requires_enum_declaration /\ Len(order) > 0
    THEN <<Stmt("alter_enum", db_type, {order[1]}, NoValue, NoValue)>>
    ELSE <<>>

\* Lines 267-274: one ALTER TYPE ... ADD VALUE per added value, in the
\* iteration order of the set.
AddPost(ft, order) ==
    IF ft.requires_enum_declaration
    THEN [i \in 1..Len(order) |-> SqlAlterEnum(db_type, order[i])]
    ELSE <<>>

\* Lines 275-287: sql is used without having been assigned.
AddRaises(ft, fs) ==
    /\ ~ft.requires_enum_declaration
    /\ ft.has_enum
    /\ Len(fs) > 0

\* The whole plan: [pre_actions, post_actions, raises].
Plan(ft, o, to_values, order) ==
    LET fs == FieldList(o) IN
    IF o.remove_values # {}
    THEN [pre_actions |-> TransitionPre(ft, fs, o, to_values) \o ReplacePre(ft, to_values),
          post_actions |-> NarrowActions(ft, fs, to_values)
                           \o TransitionPost(ft, fs, o) \o ReplacePost(ft),
          raises |-> IF TransitionCreateRaises(ft, fs, o.add_values)
                     THEN "KeyError" ELSE NoValue]
    ELSE IF o.add_values # {}
    THEN [pre_actions |-> <<>>,
          post_actions |-> AddPost(ft, order),
          raises |-> IF AddRaises(ft, fs) THEN "UnboundLocalError" ELSE NoValue]
    ELSE [pre_actions |-> <<>>, post_actions |-> <<>>, raises |-> NoValue]

NoPlan == [pre_actions |-> <<>>, post_actions |-> <<>>, raises |-> NoValue]

\* The orders a set can be iterated in.
Orders(S) ==
    {s \in [1..Cardinality(S) -> S] : \A i, j \in 1..Cardinality(S) : s[i] = s[j] => i = j}

(***************************************************************************)
(* AlterEnum.database_forwards, lines 289-318: the execution.              *)
(***************************************************************************)
\* Lines 289-295 and 316-318: pre-actions, then the on_delete actions when
\* values are removed, then post-actions.
AfterData(p) == IF p.post_actions # <<>> THEN "post" ELSE "done"
AfterPre(p, o) == IF o.remove_values # {} THEN "collect" ELSE AfterData(p)
\* Mutant of the execution: the pre-actions are not executed.
AfterPlanSkipPre(p, o) == AfterPre(p, o)

AfterPlan(p, o) == IF p.pre_actions # <<>> THEN "pre" ELSE AfterPre(p, o)

\* Mutant of the execution order: the statements of a phase run last first.
NextStatementReversed(actions, i) == actions[Len(actions) - i + 1]

\* Lines 290 and 317: the statements of a phase run in list order.
NextStatement(actions, i) == actions[i]

\* Lines 300-306: the rows of a field that hold a removed value.
AffectedRows(rws, field, remove_values) ==
    {r \in DOMAIN rws[field] : rws[field][r] \in remove_values}

\* The value SET_NULL, SET_DEFAULT and SET(value) write.
ReplacementValue(f) ==
    CASE f.on_delete = SET_NULL -> NULL
      [] f.on_delete = SET_DEFAULT -> FieldDefault[f.field]
      [] f.on_delete.kind = "SET" -> f.on_delete.value
      [] OTHER -> NoValue

\* Lines 310-313: on_delete is triggered for the fields whose query set is
\* not empty.
Triggered(fs, rws, remove_values) ==
    SelectSeq(fs, LAMBDA f : AffectedRows(rws, f.field, remove_values) # {})

\* Mutant of the PROTECT check: only the first triggered field is looked at.
ProtectRaisesFirstOnly(fs, rws, remove_values) ==
    LET t == SelectSeq(fs, LAMBDA f : {r \in DOMAIN rws[f.field] :
                                          rws[f.field][r] \in remove_values} # {})
    IN  Len(t) > 0 /\ t[1].on_delete = PROTECT

\* PROTECT raises while the actions are collected.
ProtectRaises(fs, rws, remove_values) ==
    \E i \in 1..Len(Triggered(fs, rws, remove_values)) :
        Triggered(fs, rws, remove_values)[i].on_delete = PROTECT

\* The field updates collected by SET_NULL, SET_DEFAULT and SET(value).
CollectedUpdates(fs, rws, remove_values) ==
    LET ups == SelectSeq(Triggered(fs, rws, remove_values),
                         LAMBDA f : f.on_delete.kind \in {"SET_NULL", "SET_DEFAULT", "SET"})
    IN  [i \in 1..Len(ups) |->
            [field |-> ups[i].field, value |-> ReplacementValue(ups[i]),
             rows |-> AffectedRows(rws, ups[i].field, remove_values)]]

\* Mutant of the cascade: every row of a CASCADE field is collected.
CollectedDeletesAll(fs, rws, remove_values) ==
    [f \in FieldSet |->
        IF \E i \in 1..Len(fs) : fs[i].field = f /\ fs[i].on_delete.kind = "CASCADE"
        THEN DOMAIN rws[f]
        ELSE {}]

\* The rows collected for deletion by CASCADE.
CollectedDeletes(fs, rws, remove_values) ==
    [f \in FieldSet |->
        IF \E i \in 1..Len(fs) : fs[i].field = f /\ fs[i].on_delete = CASCADE
        THEN AffectedRows(rws, f, remove_values)
        ELSE {}]

NoCollector == [updates |-> <<>>, deletes |-> [f \in FieldSet |-> {}]]

\* The fields whose query set was evaluated before collection ended.
FieldsRead(fs, rws, remove_values) ==
    IF ProtectRaises(fs, rws, remove_values)
    THEN LET first == CHOOSE i \in 1..Len(fs) :
                         /\ fs[i].on_delete = PROTECT
                         /\ AffectedRows(rws, fs[i].field, remove_values) # {}
                         /\ \A j \in 1..(i-1) :
                                ~(fs[j].on_delete = PROTECT
                                  /\ AffectedRows(rws, fs[j].field, remove_values) # {})
         IN  first
    ELSE Len(fs)

\* Whether the database accepts value in the column of field.
UpdateOk(field, value, cols, types) ==
    value = NULL \/ value \in Accepts(cols[field], types)

ApplyUpdate(rws, u) ==
    [rws EXCEPT ![u.field] = [r \in DOMAIN rws[u.field] |->
        IF r \in u.rows THEN u.value ELSE rws[u.field][r]]]

ApplyDeletes(rws, deletes) ==
    [f \in DOMAIN rws |-> [r \in DOMAIN rws[f] |->
        IF r \in deletes[f] THEN GONE ELSE rws[f][r]]]

\* What the operation executed: a statement of a phase, the read of a
\* field's query set, or a write of collector.delete().
NoStmt == Stmt(NoValue, NoValue, {}, NoValue, NoValue)
Event(phase, n, stmt) == [phase |-> phase, n |-> n, stmt |-> stmt]

NoSaved == [types |-> EmptyFcn, cols |-> EmptyFcn, rows |-> EmptyFcn]

(***************************************************************************)
(* Initial state: an empty database and an empty migration state.          *)
(***************************************************************************)
Init ==
    /\ features \in Features
    /\ Fields \in FieldLists
    /\ state_db_types = EmptyFcn
    /\ db_enum_types = EmptyFcn
    /\ col_type = EmptyFcn
    /\ rows = EmptyFcn
    /\ pc = "start"
    /\ op = NoOp
    /\ from_state = EmptyFcn
    /\ plan = NoPlan
    /\ idx = 1
    /\ collector = NoCollector
    /\ saved = NoSaved
    /\ trace = <<>>
    /\ err = NoValue
    /\ hist = <<>>

\* CreateEnum(db_type, values): state_forwards, then database_forwards.
CreateEnum(values) ==
    /\ pc = "start"
    /\ state_db_types' = CreateStateForwards(state_db_types, db_type, values)
    /\ IF features.requires_enum_declaration
       THEN /\ ~FormatRaises(sql_create_enum_keys, {"enum_type", "values"})
            /\ StmtOk(SqlCreateEnum(db_type, values), db_enum_types, col_type, rows)
            /\ db_enum_types' = StmtTypes(SqlCreateEnum(db_type, values), db_enum_types)
       ELSE db_enum_types' = db_enum_types
    /\ pc' = "created"
    /\ UNCHANGED <<features, Fields, col_type, rows, op, from_state, plan, idx,
                   collector, saved, trace, err, hist>>

\* The models with the enum fields are created and filled: every column is
\* declared with the enum, every row holds one of its values.
CreateModels(rws) ==
    /\ pc = "created"
    /\ rws \in [FieldSet -> [RowIds -> state_db_types[db_type]]]
    /\ col_type' = [f \in FieldSet |->
                       FieldDbType(features, db_type, state_db_types[db_type])]
    /\ rows' = rws
    /\ pc' = "idle"
    /\ UNCHANGED <<features, Fields, state_db_types, db_enum_types, op, from_state, plan,
                   idx, collector, saved, trace, err, hist>>

\* The operation raised: nothing more of it runs.
Fail(e) ==
    /\ pc' = "failed"
    /\ err' = e
    /\ state_db_types' = from_state

\* AlterEnum: state_forwards, then database_forwards up to line 288.
BeginAlter(o, order) ==
    /\ pc = "idle"
    /\ db_type \in DOMAIN state_db_types
    /\ LET to_state == AlterStateForwards(state_db_types, db_type,
                                          o.add_values, o.remove_values)
           p == Plan(features, o, to_state[db_type], order)
       IN  /\ op' = o
           /\ from_state' = state_db_types
           /\ plan' = p
           /\ saved' = [types |-> db_enum_types, cols |-> col_type, rows |-> rows]
           /\ IF p.raises # NoValue
              THEN /\ pc' = "failed"
                   /\ err' = p.raises
                   /\ state_db_types' = state_db_types
              ELSE /\ pc' = AfterPlan(p, o)
                   /\ err' = err
                   /\ state_db_types' = to_state
    /\ idx' = 1
    /\ trace' = <<>>
    /\ collector' = NoCollector
    /\ UNCHANGED <<features, Fields, db_enum_types, col_type, rows, hist>>

\* Lines 290-291: the next pre-action.
ExecPre ==
    /\ pc = "pre"
    /\ LET s == NextStatement(plan.pre_actions, idx) IN
       /\ trace' = Append(trace, Event("pre", idx, s))
       /\ IF StmtOk(s, db_enum_types, col_type, rows)
          THEN /\ db_enum_types' = StmtTypes(s, db_enum_types)
               /\ col_type' = StmtCols(s, col_type)
               /\ idx' = IF idx = Len(plan.pre_actions) THEN 1 ELSE idx + 1
               /\ pc' = IF idx = Len(plan.pre_actions) THEN AfterPre(plan, op) ELSE "pre"
               /\ UNCHANGED <<err, state_db_types>>
          ELSE /\ Fail("DatabaseError")
               /\ UNCHANGED <<db_enum_types, col_type, idx>>
    /\ UNCHANGED <<features, Fields, rows, op, from_state, plan, collector, saved, hist>>

\* Lines 294-313: the on_delete actions are collected; PROTECT raises.
Collect ==
    /\ pc = "collect"
    /\ LET fs == FieldList(op)
           n == FieldsRead(fs, rows, op.remove_values)
       IN  /\ trace' = trace \o [i \in 1..n |-> Event("read", i, NoStmt)]
           /\ IF ProtectRaises(fs, rows, op.remove_values)
              THEN /\ Fail("IntegrityError")
                   /\ UNCHANGED collector
              ELSE /\ collector' =
                          [updates |-> CollectedUpdates(fs, rows, op.remove_values),
                           deletes |-> CollectedDeletes(fs, rows, op.remove_values)]
                   /\ pc' = "delete"
                   /\ UNCHANGED <<err, state_db_types>>
    /\ idx' = 1
    /\ UNCHANGED <<features, Fields, db_enum_types, col_type, rows, op, from_state, plan,
                   saved, hist>>

\* Line 314, collector.delete(): the field updates, then the deletions, in
\* one transaction of its own.
CollectorDelete ==
    /\ pc = "delete"
    /\ IF idx <= Len(collector.updates)
       THEN LET u == collector.updates[idx] IN
            /\ trace' = Append(trace, Event("write", idx, NoStmt))
            /\ IF UpdateOk(u.field, u.value, col_type, db_enum_types)
               THEN /\ rows' = ApplyUpdate(rows, u)
                    /\ idx' = idx + 1
                    /\ UNCHANGED <<pc, err, state_db_types>>
               ELSE /\ Fail("DataError")
                    /\ rows' = saved.rows
                    /\ UNCHANGED idx
       ELSE /\ rows' = ApplyDeletes(rows, collector.deletes)
            /\ trace' = Append(trace, Event("write", idx, NoStmt))
            /\ idx' = 1
            /\ pc' = AfterData(plan)
            /\ UNCHANGED <<err, state_db_types>>
    /\ UNCHANGED <<features, Fields, db_enum_types, col_type, op, from_state, plan,
                   collector, saved, hist>>

\* Lines 317-318: the next post-action.
ExecPost ==
    /\ pc = "post"
    /\ LET s == NextStatement(plan.post_actions, idx) IN
       /\ trace' = Append(trace, Event("post", idx, s))
       /\ IF StmtOk(s, db_enum_types, col_type, rows)
          THEN /\ db_enum_types' = StmtTypes(s, db_enum_types)
               /\ col_type' = StmtCols(s, col_type)
               /\ idx' = IF idx = Len(plan.post_actions) THEN 1 ELSE idx + 1
               /\ pc' = IF idx = Len(plan.post_actions) THEN "done" ELSE "post"
               /\ UNCHANGED <<err, state_db_types>>
          ELSE /\ Fail("DatabaseError")
               /\ UNCHANGED <<db_enum_types, col_type, idx>>
    /\ UNCHANGED <<features, Fields, rows, op, from_state, plan, collector, saved, hist>>

\* A failed operation that ran in a transaction is rolled back.
Rollback ==
    /\ pc = "failed"
    /\ pc' = "rolled_back"
    /\ db_enum_types' = saved.types
    /\ col_type' = saved.cols
    /\ rows' = saved.rows
    /\ UNCHANGED <<features, Fields, state_db_types, op, from_state, plan, idx, collector,
                   saved, trace, err, hist>>

\* AlterEnum.database_backwards of the operation just applied: pass.  The
\* migration state goes back to the state before the operation.
DatabaseBackwards ==
    /\ pc = "done"
    /\ pc' = "reverted"
    /\ state_db_types' = from_state
    /\ UNCHANGED <<features, Fields, db_enum_types, col_type, rows, op, from_state, plan,
                   idx, collector, saved, trace, err, hist>>

\* The operation is recorded as applied; the driver is ready for the next.
Return ==
    /\ pc = "done"
    /\ pc' = "idle"
    /\ op' = NoOp
    /\ from_state' = EmptyFcn
    /\ plan' = NoPlan
    /\ idx' = 1
    /\ collector' = NoCollector
    /\ saved' = NoSaved
    /\ trace' = <<>>
    /\ UNCHANGED <<features, Fields, state_db_types, db_enum_types, col_type, rows, err, hist>>

\* The operations applied: on_delete is not given when nothing is removed,
\* where it is not read.
AlterEnums ==
    {AlterEnum(a, {}, Omitted) : a \in SUBSET Values}
    \cup {AlterEnum(a, r, od) :
            a \in {{}} \cup {{v} : v \in Values},
            r \in SUBSET Values \ {{}, Values},
            od \in Policies \cup {None, Omitted}}

\* The value sets CreateEnum is given.
CreatedValues == {{"red", "blue"}, {"red", "blue", "yellow"}}

Next ==
    \/ \E values \in CreatedValues : CreateEnum(values)
    \/ \E rws \in [FieldSet -> [RowIds -> Values]] : CreateModels(rws)
    \/ \E o \in AlterEnums : \E order \in Orders(o.add_values) : BeginAlter(o, order)
    \/ ExecPre
    \/ Collect
    \/ CollectorDelete
    \/ ExecPost
    \/ Rollback
    \/ DatabaseBackwards
    \/ Return

Spec == Init /\ [][Next]_vars

(***************************************************************************)
(* The migration state alone: AlterEnum.state_forwards applied again and   *)
(* again to a state holding two enums; hist keeps the last two             *)
(* applications.                                                           *)
(***************************************************************************)
InitState ==
    /\ features = [has_enum |-> FALSE, requires_enum_declaration |-> FALSE]
    /\ Fields = <<"f1", "f2">>
    /\ \E color \in SUBSET Values : \E size \in {{"red"}, {"blue", "yellow"}} :
          state_db_types = add_type(add_type(EmptyFcn, other_db_type, size),
                                    db_type, color)
    /\ db_enum_types = EmptyFcn
    /\ col_type = EmptyFcn
    /\ rows = EmptyFcn
    /\ pc = "state"
    /\ op = NoOp
    /\ from_state = EmptyFcn
    /\ plan = NoPlan
    /\ idx = 1
    /\ collector = NoCollector
    /\ saved = NoSaved
    /\ trace = <<>>
    /\ err = NoValue
    /\ hist = <<>>

LastTwo(h) == IF Len(h) > 2 THEN SubSeq(h, Len(h) - 1, Len(h)) ELSE h

StateForwards(add_values, remove_values) ==
    /\ pc = "state"
    /\ state_db_types' = AlterStateForwards(state_db_types, db_type,
                                            add_values, remove_values)
    /\ hist' = LastTwo(Append(hist, [from |-> state_db_types,
                                     add_values |-> add_values,
                                     remove_values |-> remove_values]))
    /\ UNCHANGED <<features, Fields, db_enum_types, col_type, rows, pc, op, from_state,
                   plan, idx, collector, saved, trace, err>>

NextState ==
    \E a \in SUBSET Values : \E r \in SUBSET Values : StateForwards(a, r)

SpecState == InitState /\ [][NextState]_vars

(***************************************************************************)
(* Properties.                                                             *)
(***************************************************************************)
\* database_forwards got past the plan (line 288) in this state.
Planned ==
    \/ pc \in {"pre", "collect", "delete", "post", "done", "reverted"}
    \/ (pc \in {"failed", "rolled_back"} /\ plan.raises = NoValue)

Phases(ph) == SelectSeq(trace, LAMBDA e : e.phase \in ph)

EffectivePolicy(f) == EffectiveOnDelete(op.on_delete, FieldOnDelete[f])

RowValues(rws, f) == {rws[f][r] : r \in DOMAIN rws[f]}

\* The to-snapshot of the running operation.
TargetValues == (from_state[db_type] \cup op.add_values) \ op.remove_values

\* C1: when an alteration has completed successfully, no row of an affected
\* column holds a value that is absent from the to-snapshot.
C1_NoValueOutsideTarget ==
    pc = "done" =>
        \A f \in FieldSet :
            RowValues(rows, f) \subseteq state_db_types[db_type] \cup {NULL, GONE}

\* C2: in every state, every value held by a row of an enum column is a
\* value its column's current type accepts, and a SET or SET_DEFAULT write
\* whose replacement value is one of the added values is never rejected by
\* the column it is written to.
C2_RowsWithinColumnType ==
    /\ \A f \in DOMAIN rows :
          RowValues(rows, f) \subseteq Accepts(col_type[f], db_enum_types) \cup {NULL, GONE}
    /\ (pc = "failed" /\ err = "DataError") =>
          collector.updates[idx].value \notin op.add_values

\* A SET or SET_DEFAULT write put a value that the enum did not have before
\* into a column, and the post-actions are about to narrow it.
C2_Witness ==
    /\ pc = "post"
    /\ features.has_enum
    /\ \E i \in 1..Len(collector.updates) :
          /\ collector.updates[i].value \in op.add_values
          /\ collector.updates[i].value \notin from_state[db_type]
          /\ collector.updates[i].value \in RowValues(rows, collector.updates[i].field)

\* Some field handled under PROTECT held a removed value when the operation
\* started.
ProtectHit ==
    /\ op.remove_values # {}
    /\ \E f \in FieldSet :
          /\ EffectivePolicy(f) = PROTECT
          /\ RowValues(saved.rows, f) \cap op.remove_values # {}

C4_CascadeDeletesExactly ==
    (pc = "done" /\ op.remove_values # {}) =>
        \A f \in FieldSet : EffectivePolicy(f) = CASCADE =>
            \A r \in RowIds :
                IF saved.rows[f][r] \in op.remove_values
                THEN rows[f][r] = GONE
                ELSE rows[f][r] = saved.rows[f][r]

\* A cascade deleted the row of one table and kept the row of the other.
C4_Witness ==
    /\ pc = "done"
    /\ op.on_delete = CASCADE
    /\ \E r \in RowIds : rows["f1"][r] = GONE /\ saved.rows["f1"][r] \in op.remove_values
    /\ "f2" \in FieldSet
    /\ \E r \in RowIds : rows["f2"][r] \in Values /\ rows["f2"][r] = saved.rows["f2"][r]

\* C5: after database_forwards and then database_backwards of an add-only
\* alteration, the database's type has the value set it had before.
C5_BackwardsRestores ==
    (pc = "reverted" /\ op.remove_values = {} /\ op.add_values # {}) =>
        db_enum_types = saved.types

\* C6: state_forwards of an alteration adding A (disjoint from the snapshot
\* S, removing nothing) followed by state_forwards of its reverse (removing
\* A, adding nothing) gives a snapshot with the value set of S.
C6_AddRoundTrip ==
    (/\ Len(hist) = 2
     /\ hist[1].remove_values = {}
     /\ hist[1].add_values \cap hist[1].from[db_type] = {}
     /\ hist[2].add_values = {}
     /\ hist[2].remove_values = hist[1].add_values)
    => state_db_types[db_type] = hist[1].from[db_type]

C6_Witness ==
    /\ Len(hist) = 2
    /\ hist[1].remove_values = {}
    /\ Cardinality(hist[1].add_values) = 2
    /\ hist[1].add_values \cap hist[1].from[db_type] = {}
    /\ hist[1].from[db_type] # {}
    /\ hist[2].add_values = {}
    /\ hist[2].remove_values = hist[1].add_values

\* C7: state_forwards stores under db_type exactly the values that were in
\* the old snapshot or in add_values and are not in remove_values (a value in
\* both add_values and remove_values does not survive), and leaves every
\* other enum of the state as it was.
C7_StateForwardsReplaces ==
    hist # <<>> =>
        LET h == hist[Len(hist)] IN
        /\ DOMAIN state_db_types = DOMAIN h.from
        /\ \A v \in Values :
              v \in state_db_types[db_type] <=>
                  ((v \in h.from[db_type] \/ v \in h.add_values) /\ v \notin h.remove_values)
        /\ \A n \in DOMAIN h.from \ {db_type} : state_db_types[n] = h.from[n]

\* A value listed in both add_values and remove_values, present before.
C7_Witness ==
    /\ hist # <<>>
    /\ LET h == hist[Len(hist)] IN
       /\ h.add_values \cap h.remove_values \cap h.from[db_type] # {}
       /\ h.from[db_type] \ h.remove_values # {}
       /\ h.add_values \ h.from[db_type] # {}

\* C8: every pre-action is executed before any read or write of the data
\* migration, every write of the data migration before any post-action, and
\* the statements of the pre and post phases in the order of the plan.
C8_PhaseOrder ==
    Planned =>
        LET pre == Phases({"pre"})
            data == Phases({"read", "write"})
            post == Phases({"post"})
        IN  /\ trace = pre \o data \o post
            /\ Len(pre) <= Len(plan.pre_actions)
            /\ \A i \in 1..Len(pre) : pre[i].stmt = plan.pre_actions[i]
            /\ Len(post) <= Len(plan.post_actions)
            /\ \A i \in 1..Len(post) : post[i].stmt = plan.post_actions[i]
            /\ (data # <<>> \/ post # <<>>) => Len(pre) = Len(plan.pre_actions)
            /\ (post # <<>> /\ op.remove_values # {}) =>
                  /\ Len(Phases({"read"})) = Len(Fields)
                  /\ Len(Phases({"write"})) = Len(collector.updates) + 1

\* An alteration ran two pre-actions, two updates and two post-actions.
C8_Witness ==
    /\ pc = "done"
    /\ Len(Phases({"pre"})) >= 2
    /\ plan.pre_actions[1] # plan.pre_actions[2]
    /\ Len(collector.updates) >= 2
    /\ Len(Phases({"post"})) >= 2

\* A pre-action alters the column of field f.
Widens(f) ==
    \E i \in 1..Len(plan.pre_actions) :
        /\ plan.pre_actions[i].field = f
        /\ plan.pre_actions[i].kind \in {"alter_column", "alter_column_inline"}

\* A pre-action creates the transition type.
CreatesTransition ==
    \E i \in 1..Len(plan.pre_actions) :
        /\ plan.pre_actions[i].kind = "create_enum"
        /\ plan.pre_actions[i].enum_type = transition_db_type

\* C9, as claimed: on a database that declares enums a transition type is
\* created, and columns are widened to it, exactly when some column's policy
\* is CASCADE, or is SET_DEFAULT with a default that lies in remove_values.
C9_TransitionForCascade ==
    (Planned /\ op.remove_values # {} /\ features.requires_enum_declaration) =>
        ((CreatesTransition \/ \E f \in FieldSet : Widens(f))
         <=> \E f \in FieldSet :
                \/ EffectivePolicy(f) = CASCADE
                \/ (EffectivePolicy(f) = SET_DEFAULT
                    /\ FieldDefault[f] \in op.remove_values))

\* The policy of f is SET(value), or SET_DEFAULT with a default among the
\* added values, in an alteration that adds and removes values.
WidenedPolicy(f) ==
    /\ op.remove_values # {}
    /\ op.add_values # {}
    /\ \/ EffectivePolicy(f).kind = "SET"
       \/ (EffectivePolicy(f) = SET_DEFAULT /\ FieldDefault[f] \in op.add_values)

\* C9, amended: a pre-action creates a transition type or widens a column
\* only in an alteration that both adds and removes values, on a database
\* that has enums, and only for a column whose policy is SET(value) or
\* SET_DEFAULT with a default in add_values; under PROTECT, CASCADE and
\* SET_NULL nothing is widened and no transition type is created.  On a
\* database that has enums without declaring them exactly those columns are
\* widened, to the to-snapshot values plus the removed values, and no type is
\* created.  A removal under CASCADE on a database that declares enums has
\* one pre-action, the creation of the temporary type.
C9_TransitionForSetOfAddedValue ==
    Planned =>
        /\ CreatesTransition =>
              (features.has_enum /\ \E f \in FieldSet : WidenedPolicy(f))
        /\ \A f \in FieldSet : Widens(f) => (features.has_enum /\ WidenedPolicy(f))
        /\ (features.has_enum /\ ~features.requires_enum_declaration) =>
              /\ ~CreatesTransition
              /\ \A f \in FieldSet : WidenedPolicy(f) => Widens(f)
              /\ \A i \in 1..Len(plan.pre_actions) :
                    /\ plan.pre_actions[i].kind = "alter_column_inline"
                    /\ plan.pre_actions[i].values = TargetValues \cup op.remove_values
        /\ (/\ features.requires_enum_declaration
            /\ op.remove_values # {}
            /\ op.on_delete = CASCADE) =>
              plan.pre_actions = <<SqlCreateEnum(temp_db_type, TargetValues)>>

\* A SET_DEFAULT column whose default is an added value was widened by a
\* pre-action while the SET_DEFAULT column whose default is a removed value
\* was not.
C9_Witness ==
    /\ pc = "done"
    /\ ~features.requires_enum_declaration
    /\ op.on_delete = SET_DEFAULT
    /\ Widens("f1") /\ ~Widens("f2")
    /\ FieldDefault["f2"] \in op.remove_values
    /\ Phases({"pre"}) # <<>>

\* C10: an add-only alteration on a database that declares enums has no
\* pre-actions, reads and writes no row, and has exactly one post-action per
\* added value, adding that value to the type named db_type.
C10_AddOnlyPlan ==
    (/\ Planned
     /\ op.remove_values = {}
     /\ op.add_values # {}
     /\ features.requires_enum_declaration)
    => /\ plan.pre_actions = <<>>
       /\ Len(plan.post_actions) = Cardinality(op.add_values)
       /\ \A v \in op.add_values :
             \E i \in 1..Len(plan.post_actions) :
                 plan.post_actions[i] = SqlAlterEnum(db_type, v)
       /\ Phases({"pre", "read", "write"}) = <<>>
       /\ rows = saved.rows

\* Two values were added by two post-actions.
C10_Witness ==
    /\ pc = "done"
    /\ features.requires_enum_declaration
    /\ op.remove_values = {}
    /\ Cardinality(op.add_values) = 2
    /\ Len(Phases({"post"})) = 2
    /\ db_enum_types[db_type] = saved.types[db_type] \cup op.add_values

\* A removal-only alteration with one affected column under SET_NULL on a
\* database that declares enums.
RemovalOnlySetNull ==
    /\ Planned
    /\ features.requires_enum_declaration
    /\ op.add_values = {}
    /\ op.remove_values # {}
    /\ Len(Fields) = 1
    /\ EffectivePolicy(Fields[1]) = SET_NULL

\* The data migration of the running operation is over.
Migrated == pc \in {"post", "done", "reverted"}

\* Every row that held a removed value holds NULL, every other row holds
\* what it held before.
RemovedSetToNull ==
    \A f \in FieldSet : \A r \in RowIds :
        rows[f][r] = IF saved.rows[f][r] \in op.remove_values
                     THEN NULL ELSE saved.rows[f][r]

PlanStatements == plan.pre_actions \o plan.post_actions

Positions(s) == {i \in 1..Len(PlanStatements) : PlanStatements[i] = s}

AlterToTemp(f) == SqlAlterColumnNamed(f, temp_db_type, db_type)

\* The last statement handed to the database.
LastStatement == trace[Len(trace)].stmt

\* C12: on a database that declares enums, in every plan of a removal the
\* temporary type is created once, before every statement that alters a
\* column to it; every affected column is altered to it before the one drop
\* of the original type; the drop precedes the one rename of the temporary
\* type to the original name.  While the plan is executed every column is
\* declared with a type that exists, and the database never rejects a drop
\* or a rename, nor an alteration of a column for want of the type.
C12_TypeSafeSwap ==
    (features.requires_enum_declaration /\ op.remove_values # {}) =>
        /\ \E c \in Positions(SqlCreateEnum(temp_db_type, TargetValues)) :
           \E d \in Positions(SqlDeleteEnum(db_type)) :
           \E m \in Positions(SqlRenameEnum(temp_db_type, db_type)) :
              /\ \A i \in 1..Len(PlanStatements) :
                    /\ (/\ PlanStatements[i].kind = "create_enum"
                        /\ PlanStatements[i].enum_type = temp_db_type) => i = c
                    /\ (/\ PlanStatements[i].kind = "delete_enum"
                        /\ PlanStatements[i].enum_type = db_type) => i = d
                    /\ PlanStatements[i].kind = "rename_enum" => i = m
                    /\ (/\ PlanStatements[i].kind = "alter_column"
                        /\ PlanStatements[i].enum_type = temp_db_type) => (c < i /\ i < d)
              /\ \A f \in FieldSet : \E a \in Positions(AlterToTemp(f)) : c < a /\ a < d
              /\ d < m
        /\ Planned =>
              /\ \A f \in FieldSet :
                    /\ col_type[f].kind = "named"
                    /\ col_type[f].name \in DOMAIN db_enum_types
              /\ (pc = "failed" /\ err = "DatabaseError") =>
                    /\ LastStatement.kind = "alter_column"
                    /\ LastStatement.enum_type \in DOMAIN db_enum_types

\* The original type has been dropped and the temporary type not yet
\* renamed, with the columns of two tables declared with the temporary type.
C12_Witness ==
    /\ features.requires_enum_declaration
    /\ op.remove_values # {}
    /\ pc = "post"
    /\ Len(Fields) = 2
    /\ db_type \notin DOMAIN db_enum_types
    /\ \A f \in FieldSet : col_type[f] = NamedType(temp_db_type)

\* The statements handed to the database so far, in order.
Executed == [i \in 1..Len(Phases({"pre", "post"})) |-> Phases({"pre", "post"})[i].stmt]

\* The PROTECT check ended the running operation.
ProtectFailed == Planned /\ ProtectHit /\ pc = "failed" /\ err = "IntegrityError"

\* C13, as claimed: when a row of a PROTECT column holds a removed value, no
\* statement of the alteration has been executed when it fails.
C13_ProtectBeforeAnyStatement ==
    (Planned /\ ProtectHit /\ pc = "failed") => Executed = <<>>

\* C13, amended: when a row of a PROTECT column holds a removed value, the
\* alteration fails at the check with every pre-action executed and nothing
\* else: no post-action, so no narrowing of a column, no drop and no rename
\* of a type.  On a database that declares enums the temporary type has
\* then been created and exists; on the other databases nothing has been
\* executed unless the plan widens a column.
C13_ProtectAfterPreActions ==
    ProtectFailed =>
        /\ Executed = plan.pre_actions
        /\ \A i \in 1..Len(Executed) :
              /\ Executed[i].kind \notin {"delete_enum", "rename_enum"}
              /\ Executed[i] \notin {AlterToTemp(f) : f \in FieldSet}
        /\ features.requires_enum_declaration =>
              /\ \E i \in 1..Len(Executed) :
                    Executed[i] = SqlCreateEnum(temp_db_type, TargetValues)
              /\ temp_db_type \in DOMAIN db_enum_types
              /\ db_enum_types[db_type] = saved.types[db_type]
        /\ (~features.requires_enum_declaration /\ \A f \in FieldSet : ~Widens(f)) =>
              Executed = <<>>

\* An alteration given PROTECT failed at the check of its only column, with
\* the temporary type created.
C13_Witness ==
    /\ ProtectFailed
    /\ op.on_delete = PROTECT
    /\ Len(Fields) = 1
    /\ Executed = <<SqlCreateEnum(temp_db_type, TargetValues)>>
    /\ temp_db_type \in DOMAIN db_enum_types

\* The running alteration is one that uses a transition type on a database
\* that declares enums (lines 214-226).
NeedsDeclaredTransition ==
    /\ pc \notin {"start", "created", "idle"}
    /\ op.remove_values # {}
    /\ features.requires_enum_declaration
    /\ UsesTransition(features, FieldList(op), op.add_values)

AlterToTransition(f) ==
    SqlAlterColumnTo(f, FieldDbType(features, transition_db_type,
                                    TransitionValues(TargetValues, op.remove_values)))

\* C14: whenever an alteration uses a transition type on a database that
\* declares enums, then once its pre-actions are over the transition type
\* has been created, before any column was altered to it and before any
\* narrowing statement; and once the alteration has completed, the
\* transition type has been dropped by a post-action executed after every
\* widened column was narrowed to the temporary type.
C14_TransitionCreatedFirstDroppedLast ==
    (NeedsDeclaredTransition /\ pc # "pre") =>
        /\ \E c \in 1..Len(Executed) :
              /\ Executed[c] = SqlCreateEnum(transition_db_type,
                                  TransitionValues(TargetValues, op.remove_values))
              /\ \A i \in 1..Len(Executed) :
                    Executed[i].kind \in {"alter_column", "alter_column_inline"} => c < i
        /\ pc \in {"done", "reverted"} =>
              \E d \in 1..Len(Executed) :
                 /\ Executed[d] = SqlDeleteEnum(transition_db_type)
                 /\ \A f \in FieldSet :
                       (\E i \in 1..Len(Executed) : Executed[i] = AlterToTransition(f))
                       => \E n \in 1..(d - 1) : Executed[n] = AlterToTemp(f)

ScratchTypes == {temp_db_type, transition_db_type}

\* C15: on a database that declares enums, when an alteration has completed
\* successfully, and whenever the driver is ready for the next operation,
\* no scratch type exists and no column is declared with one; and the
\* database never rejects the creation of a scratch type.
C15_ScratchTypesCleanedUp ==
    features.requires_enum_declaration =>
        /\ pc \in {"done", "idle", "reverted"} =>
              /\ DOMAIN db_enum_types \cap ScratchTypes = {}
              /\ \A f \in DOMAIN col_type :
                    col_type[f] \notin {NamedType(t) : t \in ScratchTypes}
        /\ (pc = "failed" /\ err = "DatabaseError") =>
              LastStatement.kind # "create_enum"

\* A removal completed on a snapshot that an earlier removal had left: the
\* temporary type was created, renamed away, and created again.
C15_Witness ==
    /\ features.requires_enum_declaration
    /\ pc = "done"
    /\ op.remove_values # {}
    /\ from_state[db_type] = {"blue", "yellow"}
    /\ Executed[1] = SqlCreateEnum(temp_db_type, TargetValues)
    /\ DOMAIN db_enum_types = {db_type}

\* A removal on a database that declares enums failed in the data migration
\* and was not rolled back.
FailedInDataMigration ==
    /\ Planned
    /\ features.requires_enum_declaration
    /\ op.remove_values # {}
    /\ pc = "failed"
    /\ err \in {"IntegrityError", "DataError"}

\* C16: on a database that declares enums, a removal that failed in the
\* data migration and was not rolled back has executed its pre-actions and
\* no post-action: the temporary type, which did not exist before, exists,
\* the original type is unchanged, and no statement of the alteration is
\* executed any more, so nothing drops it.
C16_ScratchTypeLeftBehind ==
    FailedInDataMigration =>
        /\ Executed = plan.pre_actions
        /\ Phases({"post"}) = <<>>
        /\ temp_db_type \in DOMAIN db_enum_types
        /\ temp_db_type \notin DOMAIN saved.types
        /\ db_type \in DOMAIN db_enum_types
        /\ ~ENABLED (ExecPre \/ Collect \/ CollectorDelete \/ ExecPost \/ Return)

\* The write of a replacement value was rejected after the temporary type
\* had been created.
C16_Witness ==
    /\ FailedInDataMigration
    /\ err = "DataError"
    /\ Phases({"write"}) # <<>>
    /\ db_enum_types[temp_db_type] = TargetValues
    /\ Phases({"post"}) = <<>>

\* An alteration is running or has ended.
Begun == pc \notin {"start", "created", "idle"}

\* ALTER COLUMN of every field to its declaration with the to-snapshot.
Redeclarations ==
    [i \in 1..Len(Fields) |->
        SqlAlterColumnTo(Fields[i], FieldDbType(features, db_type, TargetValues))]

\* C17: an add-only alteration on a database that has enums without
\* declaring them has exactly one post-action per affected column, which
\* declares the column with the to-snapshot values, added values included,
\* and it ends without an error.
C17_AddOnlyRedeclaresColumns ==
    (/\ Begun
     /\ op.remove_values = {}
     /\ op.add_values # {}
     /\ features.has_enum
     /\ ~features.requires_enum_declaration)
    => /\ plan.post_actions = Redeclarations
       /\ pc \notin {"failed", "rolled_back"}

\* A removal on a database that does not declare enums.
UndeclaredRemoval ==
    /\ Begun
    /\ op.remove_values # {}
    /\ ~features.requires_enum_declaration

NoTypeStatement ==
    \A i \in 1..Len(PlanStatements) :
        PlanStatements[i].kind \notin {"create_enum", "delete_enum", "rename_enum", "alter_enum"}

\* C18, as claimed: a removal on a database that does not declare enums,
\* with or without has_enum, plans no statement on a type, alters no column
\* to a transition type, and has exactly one post-action per affected
\* column, declaring the column with the to-snapshot values.
C18_UndeclaredNarrowsEveryColumn ==
    UndeclaredRemoval =>
        /\ NoTypeStatement
        /\ \A f \in FieldSet : ~Widens(f)
        /\ plan.post_actions = Redeclarations

\* The fields whose policy asks for the transition type, in field order.
WidenedFields == SelectSeq(Fields, WidenedPolicy)

\* C18, amended: such a removal plans no statement on a type.  With has_enum
\* it has exactly one post-action per affected column, declaring the column
\* with the to-snapshot values, and its pre-actions are one widening, to the
\* to-snapshot values plus the removed values, for each column whose policy
\* is SET(value) or SET_DEFAULT with a default among the added values when
\* values are added, and none otherwise.  Without has_enum the plan is
\* empty and no statement is executed.
C18_UndeclaredPlan ==
    UndeclaredRemoval =>
        /\ NoTypeStatement
        /\ features.has_enum =>
              /\ plan.post_actions = Redeclarations
              /\ plan.pre_actions =
                    [i \in 1..Len(WidenedFields) |->
                        SqlAlterColumnInline(WidenedFields[i],
                                             TargetValues \cup op.remove_values)]
        /\ ~features.has_enum =>
              /\ PlanStatements = <<>>
              /\ Executed = <<>>

\* On a database that has enums without declaring them, the columns of two
\* tables were widened, written with the added value and narrowed to the
\* to-snapshot.
C18_Witness ==
    /\ UndeclaredRemoval
    /\ features.has_enum
    /\ pc = "done"
    /\ op.on_delete.kind = "SET"
    /\ Len(WidenedFields) = 2
    /\ Executed = plan.pre_actions \o Redeclarations
    /\ \A f \in FieldSet : col_type[f] = InlineType(TargetValues)
    /\ \E f \in FieldSet : \E r \in RowIds :
          rows[f][r] \in op.add_values /\ saved.rows[f][r] \in op.remove_values

\* C19: an alteration constructed without an on_delete argument handles
\* each column under the policy the column was declared with: it fails at
\* the PROTECT check only when a column declared PROTECT holds a removed
\* value, and once its data migration is over the rows of the columns
\* declared SET_NULL that held a removed value hold NULL.
C19_DefaultKeepsColumnPolicies ==
    (Planned /\ op.remove_values # {} /\ ~op.given) =>
        /\ (pc = "failed" /\ err = "IntegrityError") =>
              \E f \in FieldSet :
                 /\ FieldOnDelete[f] = PROTECT
                 /\ RowValues(saved.rows, f) \cap op.remove_values # {}
        /\ Migrated =>
              \A f \in FieldSet : FieldOnDelete[f] = SET_NULL =>
                 \A r \in RowIds :
                    saved.rows[f][r] \in op.remove_values => rows[f][r] = NULL

\* C20: on a database that declares enums, whenever the operations applied
\* so far have all completed (the enum was created, and every alteration
\* begun has completed), the database type named db_type holds exactly the
\* values of the migration-state snapshot stored under db_type.
C20_DatabaseTypeMatchesState ==
    (features.requires_enum_declaration /\ pc \in {"created", "idle", "done"}) =>
        /\ db_type \in DOMAIN db_enum_types
        /\ db_type \in DOMAIN state_db_types
        /\ db_enum_types[db_type] = values_set(state_db_types[db_type])

\* An alteration that adds and removes values completed on a snapshot that
\* CreateEnum did not give, so after an earlier alteration.
C20_Witness ==
    /\ features.requires_enum_declaration
    /\ pc = "done"
    /\ op.add_values # {}
    /\ op.remove_values # {}
    /\ from_state[db_type] \notin CreatedValues
    /\ state_db_types[db_type] # from_state[db_type]
    /\ db_enum_types[db_type] = state_db_types[db_type]

====
